---- MODULE Spec2Model ----
(***************************************************************************)
(* Clean Eats stockist map: the browser client (src/script.js).            *)
(*                                                                         *)
(* Text is a sequence of one-character strings.  A field that may be null  *)
(* or missing is an option: <<>> for null/undefined, <<v>> for the value   *)
(* v.  A stockist is named by its index in the registry `markers`, which   *)
(* stands for the object identity the code compares (v.data === data).     *)
(*                                                                         *)
(* Latitudes are counted in kilometres of arc (one unit of latitude =      *)
(* 180/(6371*pi) degrees) and longitudes in degrees.  All longitudes are   *)
(* equal modulo 360 degrees, where the haversine formula of distanceKm     *)
(* reduces to 6371 * |dLat in radians|.                                    *)
(***************************************************************************)
EXTENDS Integers, Sequences, FiniteSets, TLC

VARIABLES
    markers,        \* the registry, [{marker, data}] in feed order
    uniqueStates,   \* the region codes offered by #state-select
    nameInput,      \* #search-name value
    postcodeInput,  \* #search-postcode value
    stateSelect,    \* #state-select value
    narrow,         \* what isMobile() answers now (the media query's match)
    markerVisible,  \* the indices whose marker element has display ''
    list,           \* #stockist-entries: the rendered entries, in order
    showMore,       \* the #show-more button: absent, or its display/text/onclick
    viewport,       \* the last fitBounds command given to the map
    pending,        \* applyFilter invocations suspended at await geocodePostcodeAU
    latest,         \* the most recent filter-apply invocation and its outcome:
                    \* "direct" (ended without a lookup), "pending" (suspended),
                    \* "done" (ended after its lookup), or "superseded" (applyNearby
                    \* has run since); while it is suspended, what it re-runs
    center,         \* the geocoder's answer whose radius result the markers show,
                    \* absent when the markers were last set by anything else
    embedded,       \* window.parent !== window
    geoSupported,   \* navigator.geolocation is present
    locPc,          \* where the 'use my location' click handler is suspended
    listener,       \* getLocationViaParent's message handler is still registered
    btnDisabled,    \* #use-location disabled
    myMarker,       \* applyNearby's my-location marker: absent, or its position
    notice,         \* the attempt started by the last click has raised its alert()
    \* the server (src/api), for one customer id:
    stockists,      \* the stockists table: the customer's row, absent or its columns
    handlers,       \* the running invocations of the customers webhook handler
    secret,         \* process.env.SHOPIFY_WEBHOOK_SECRET
    response,       \* the response sent last, and what Shopify held for the
                    \* customer when the handler that sent it looked the tags up
    received,       \* the order in which the webhooks accepted so far arrived
    \* the two batch jobs of the server, each with the part of the table and of
    \* Shopify it works on:
    geocodeJob,     \* the pending-geocode job and the rows waiting for coordinates
    backfill        \* the backfill import, Shopify's customer list and the upserts

\* the page in the browser
page == <<markers, uniqueStates, nameInput, postcodeInput, stateSelect, narrow, markerVisible,
          list, showMore, viewport, pending, latest, center, embedded, geoSupported,
          locPc, listener, btnDisabled, myMarker, notice>>

\* the webhook endpoint and its table
\* the batch jobs
jobs == <<geocodeJob, backfill>>

server == <<stockists, handlers, secret, response, received, jobs>>

vars == <<page, server>>

-----------------------------------------------------------------------------
(* Program constants *)

RADIUS_KM_NEAR_ME == 10

\* a variant: the postcode fallback searching with the near-me radius
RadiusOfNearMe == RADIUS_KM_NEAR_ME

RADIUS_KM_POSTCODE == 5
MOBILE_MAX_ITEMS == 10

\* the maxZoom option of fitToCoords' fitBounds call
MAX_FIT_ZOOM == 12

\* the floor of the earlier fitToCoords (src/unnamed/part_000), which
\* src/script.js no longer has
MIN_FIT_ZOOM == 6

(* Bounds of the model *)

MaxInFlight == 2

\* the webhook invocations that run at once
MaxHandlers == 2

-----------------------------------------------------------------------------
(* Text *)

None == <<>>
Some(v) == <<v>>

\* x || ''  on an optional string
OrEmpty(opt) == IF opt = None THEN <<>> ELSE opt[1]

toLowerChar(c) ==
    CASE c = "A" -> "a" [] c = "B" -> "b" [] c = "N" -> "n"
      [] c = "V" -> "v" [] c = "Z" -> "z" [] OTHER -> c

toUpperChar(c) ==
    CASE c = "a" -> "A" [] c = "b" -> "B" [] c = "n" -> "N"
      [] c = "v" -> "V" [] c = "z" -> "Z" [] OTHER -> c

toLowerCase(s) == [i \in 1..Len(s) |-> toLowerChar(s[i])]
toUpperCase(s) == [i \in 1..Len(s) |-> toUpperChar(s[i])]

\* String.prototype.includes
includes(s, sub) ==
    \E i \in 0..(Len(s) - Len(sub)) : SubSeq(s, i + 1, i + Len(sub)) = sub

RECURSIVE trimStart(_)
trimStart(s) ==
    IF s # <<>> /\ Head(s) = " " THEN trimStart(Tail(s)) ELSE s

RECURSIVE trimEnd(_)
trimEnd(s) ==
    IF s # <<>> /\ s[Len(s)] = " " THEN trimEnd(SubSeq(s, 1, Len(s) - 1)) ELSE s

\* String.prototype.trim
trim(s) == trimEnd(trimStart(s))

-----------------------------------------------------------------------------
(* Geo utilities *)

Abs(x) == IF x < 0 THEN -x ELSE x

\* a variant: the signed difference of the latitudes
distanceKmSigned(lat1, lon1, lat2, lon2) == lat2 - lat1

\* distanceKm with lon2 - lon1 a multiple of 360 degrees: sin(dLon/2)^2 = 0
\* and a = sin(dLat/2)^2, so
\* 2*atan2(sqrt a, sqrt(1-a)) = |dLat| and the result is R*|dLat|, which is
\* |lat2 - lat1| in the model's unit of latitude.
distanceKm(lat1, lon1, lat2, lon2) == Abs(lat2 - lat1)

-----------------------------------------------------------------------------
(* The stockist feed (GET /api/stockists.json) and the registry built from it *)

Txt(a, b) == <<a, b>>

RowAt(name, postcode, province, latitude, longitude) ==
    [name |-> name, postcode |-> postcode, province |-> province,
     latitude |-> latitude, longitude |-> longitude]

Row(name, postcode, province, latitude) ==
    RowAt(name, postcode, province, latitude, Some(0))

\* A small mixed feed: a mixed-case name, a lower-case province, a row without
\* coordinates, and a row whose name, postcode and province are null, located
\* in another part of the country, with a longitude a full turn off.
FeedMixed ==
    << Row(Some(Txt("A", "b")), Some(Txt("3", "0")), Some(<<"v">>), Some(0)),
       Row(Some(<<"z">>),       Some(Txt("3", "1")), Some(<<"N">>), Some(5)),
       Row(Some(<<"b">>),       Some(Txt("3", "0")), Some(<<"N">>), None),
       RowAt(None,              None,                None,          Some(3000),
             Some(360)) >>

\* A feed longer than MOBILE_MAX_ITEMS: eleven branches of one chain in one suburb,
\* the last of them a kilometre south of the others.
FeedChain ==
    [i \in 1..(MOBILE_MAX_ITEMS + 1) |->
        Row(Some(Txt("A", "b")), Some(Txt("3", "0")), Some(<<"v">>),
            Some(IF i <= MOBILE_MAX_ITEMS THEN 0 ELSE -1))]

Feeds == {FeedMixed, FeedChain}

\* parseFloat of a feed field: <<>> stands for NaN
parseFloat(opt) == opt
isNaN(x) == x = None

\* init's data.forEach: rows whose lat or lng is NaN get no marker and no entry
RowData(row) ==
    [name |-> row.name, postcode |-> row.postcode,
     state |-> toUpperCase(OrEmpty(row.province)),
     lat |-> parseFloat(row.latitude)[1], lng |-> parseFloat(row.longitude)[1]]

RowLocated(row) ==
    ~(isNaN(parseFloat(row.latitude)) \/ isNaN(parseFloat(row.longitude)))

LoadRegistry(feed) ==
    LET located == SelectSeq(feed, RowLocated)
    IN  [i \in 1..Len(located) |-> RowData(located[i])]

\* init's uniqueStates, gathered from every row (located or not)
UniqueStates(feed) ==
    {toUpperCase(OrEmpty(feed[i].province)) : i \in 1..Len(feed)} \ {<<>>}

-----------------------------------------------------------------------------
(* The filter engine: applyFilter's two passes *)

Range(s) == {s[i] : i \in 1..Len(s)}

Indices(reg) == [i \in 1..Len(reg) |-> i]

matchesName(data, nameVal) == includes(toLowerCase(OrEmpty(data.name)), nameVal)

\* data.postcode?.includes(postcodeVal): undefined, hence falsy, on a null postcode
matchesPostcode(data, postcodeVal) ==
    IF data.postcode = None THEN FALSE ELSE includes(data.postcode[1], postcodeVal)

\* a variant: an empty state criterion compared like any other
matchesStateStrict(data, stateVal) == data.state = stateVal

matchesState(data, stateVal) == stateVal = <<>> \/ data.state = stateVal

\* a variant: pass 1 without the state predicate
Pass1IgnoringState(reg, nameVal, postcodeVal, stateVal) ==
    LET Keep(i) == /\ matchesName(reg[i], nameVal)
                   /\ matchesPostcode(reg[i], postcodeVal)
    IN  SelectSeq([i \in 1..Len(reg) |-> i], Keep)

\* pass 1: the indices of the direct matches, in registry order
Pass1(reg, nameVal, postcodeVal, stateVal) ==
    LET Keep(i) == /\ matchesName(reg[i], nameVal)
                   /\ matchesPostcode(reg[i], postcodeVal)
                   /\ matchesState(reg[i], stateVal)
    IN  SelectSeq(Indices(reg), Keep)

\* a variant: the radius excluded
WithinRadiusStrict(reg, lat, lng, radius) ==
    LET Keep(i) == distanceKm(lat, lng, reg[i].lat, reg[i].lng) < radius
    IN  SelectSeq(Indices(reg), Keep)

\* a variant: the radius result sorted nearest first
WithinRadiusNearestFirst(reg, lat, lng, radius) ==
    LET d(i) == distanceKm(lat, lng, reg[i].lat, reg[i].lng)
        kept == {i \in 1..Len(reg) : d(i) <= radius}
        rank(i) == Cardinality({j \in kept : d(j) < d(i) \/ (d(j) = d(i) /\ j < i)}) + 1
    IN  [k \in 1..Cardinality(kept) |-> CHOOSE i \in kept : rank(i) = k]

\* markers.filter(distanceKm(lat, lng, data.lat, data.lng) <= radius)
WithinRadius(reg, lat, lng, radius) ==
    LET Keep(i) == distanceKm(lat, lng, reg[i].lat, reg[i].lng) <= radius
    IN  SelectSeq(Indices(reg), Keep)

\* a variant: the fallback whenever a postcode is typed
NeedsFallbackOnPostcode(postcodeVal, visible) == postcodeVal # <<>>

\* the condition of `if (postcodeVal && visible.length === 0)`
NeedsFallback(postcodeVal, visible) == postcodeVal # <<>> /\ Len(visible) = 0

\* lines 207-237 as a function of the fields and of what the geocoder answers
\* (None: null): the indices applyFilter leaves visible when it runs alone
applyFilterResult(reg, rawName, rawPostcode, rawState, answer) ==
    LET nameVal == toLowerCase(rawName)
        postcodeVal == trim(rawPostcode)
        stateVal == toUpperCase(rawState)
        visible == Pass1(reg, nameVal, postcodeVal, stateVal)
    IN  IF NeedsFallback(postcodeVal, visible) /\ answer # None
        THEN WithinRadius(reg, answer[1], 0, RADIUS_KM_POSTCODE)
        ELSE visible

-----------------------------------------------------------------------------
(* Presentation: the list, the show-more button, the viewport *)

\* a variant: truncation in every layout
TruncatedAnyLayout(visible, mobile) == Len(visible) > MOBILE_MAX_ITEMS

Truncated(visible, mobile) == mobile /\ Len(visible) > MOBILE_MAX_ITEMS

RenderItems(visible, mobile) ==
    IF Truncated(visible, mobile) THEN SubSeq(visible, 1, MOBILE_MAX_ITEMS) ELSE visible

NoButton == [present |-> FALSE, shown |-> FALSE, total |-> 0, visible |-> <<>>]

\* lines 256-279: create or show the button when truncated, hide it otherwise
ShowMoreAfter(btn, visible, mobile) ==
    IF Truncated(visible, mobile)
    THEN [present |-> TRUE, shown |-> TRUE, total |-> Len(visible), visible |-> visible]
    ELSE IF btn.present THEN [btn EXCEPT !.shown = FALSE] ELSE btn

Min(S) == CHOOSE x \in S : \A y \in S : x <= y
Max(S) == CHOOSE x \in S : \A y \in S : x >= y

InitialView == None

\* a variant: no early return, an empty list resets the view
fitToCoordsUnguarded(view, lats) ==
    IF lats = {} THEN InitialView ELSE Some([lo |-> Min(lats), hi |-> Max(lats)])

\* fitToCoords: nothing for no coordinates, else fitBounds on their bounding box
fitToCoords(view, lats) ==
    IF lats = {} THEN view ELSE Some([lo |-> Min(lats), hi |-> Max(lats)])

\* the rendering surface: the north-south span, in km, that the map shows at
\* zoom 0; each zoom level halves it
WorldSpanKm == 40075

\* fitBounds(bounds, {maxZoom: MAX_FIT_ZOOM}): the closest zoom that still shows
\* the whole span, capped at maxZoom
ZoomToFit(span) ==
    Max({z \in 0..MAX_FIT_ZOOM : z = 0 \/ span * 2^z <= WorldSpanKm})

\* the zoom the map rests at once the last fitBounds command has been carried out
SettledZoom(view) == ZoomToFit(view[1].hi - view[1].lo)

Lats(reg, items) == {reg[items[i]].lat : i \in 1..Len(items)}

-----------------------------------------------------------------------------
(* What the user can type and what the outside world can answer *)

NameInputs == {<<>>, <<"B">>}
PostcodeInputs == {<<>>, <<" ">>, <<"3">>, <<"9">>}

\* latitudes the geocoder may answer, and those the hosting frame or the device
\* may report
GeocoderAnswers == {0, 10}
DevicePositions == {10}

-----------------------------------------------------------------------------
(* applyFilter *)

\* lines 239-281 of applyFilter: rebuild the list, update the button, fit the map
ListAndFit(visible, mobile) ==
    /\ list' = RenderItems(visible, mobile)
    /\ showMore' = ShowMoreAfter(showMore, visible, mobile)
    /\ viewport' = fitToCoords(viewport, Lats(markers, RenderItems(visible, mobile)))

\* a variant: once "use my location" has succeeded, pass 1 keeps only the
\* stockists near the device
applyFilterWithinNearby(rawName, rawPostcode, rawState, mobile) ==
    LET nameVal == toLowerCase(rawName)
        postcodeVal == trim(rawPostcode)
        stateVal == toUpperCase(rawState)
        Near(i) == \/ myMarker = None
                   \/ distanceKm(myMarker[1], 0, markers[i].lat, markers[i].lng)
                        <= RADIUS_KM_NEAR_ME
        visible == SelectSeq(Pass1(markers, nameVal, postcodeVal, stateVal), Near)
    IN  /\ nameInput' = rawName
        /\ postcodeInput' = rawPostcode
        /\ stateSelect' = rawState
        /\ narrow' = mobile
        /\ markerVisible' = Range(visible)
        /\ center' = None
        /\ IF NeedsFallback(postcodeVal, visible)
           THEN /\ Len(pending) < MaxInFlight
                /\ pending' = Append(pending, [pc |-> postcodeVal])
                /\ list' = <<>>
                /\ latest' = [status |-> "pending", visible |-> <<>>, rerunOf |-> None]
                /\ UNCHANGED <<showMore, viewport>>
           ELSE /\ ListAndFit(visible, mobile)
                /\ latest' = [status |-> "direct", visible |-> visible, rerunOf |-> None]
                /\ UNCHANGED pending
        /\ UNCHANGED <<server, markers, uniqueStates, embedded, geoSupported, locPc,
                       listener, btnDisabled, myMarker, notice>>

\* applyFilter, run by an event that leaves the fields at rawName, rawPostcode,
\* rawState and the layout at mobile.  It either runs to its end or suspends at
\* `await geocodePostcodeAU(postcodeVal)` with its locals kept in `pending`.
applyFilter(rawName, rawPostcode, rawState, mobile) ==
    LET nameVal == toLowerCase(rawName)
        postcodeVal == trim(rawPostcode)
        stateVal == toUpperCase(rawState)
        visible == Pass1(markers, nameVal, postcodeVal, stateVal)
        \* bookkeeping: when the fields are re-applied unchanged (a resize) over a
        \* displayed radius result, the point that result was searched around
        rerunOf == IF <<rawName, rawPostcode, rawState>> =
                        <<nameInput, postcodeInput, stateSelect>>
                   THEN center ELSE None
    IN  /\ nameInput' = rawName
        /\ postcodeInput' = rawPostcode
        /\ stateSelect' = rawState
        /\ narrow' = mobile
        /\ markerVisible' = Range(visible)
        /\ center' = None
        /\ IF NeedsFallback(postcodeVal, visible)
           THEN /\ Len(pending) < MaxInFlight
                /\ pending' = Append(pending, [pc |-> postcodeVal])
                /\ list' = <<>>
                /\ latest' = [status |-> "pending", visible |-> <<>>, rerunOf |-> rerunOf]
                /\ UNCHANGED <<showMore, viewport>>
           ELSE /\ ListAndFit(visible, mobile)
                /\ latest' = [status |-> "direct", visible |-> visible, rerunOf |-> None]
                /\ UNCHANGED pending
        /\ UNCHANGED <<server, markers, uniqueStates, embedded, geoSupported, locPc,
                       listener, btnDisabled, myMarker, notice>>

InputName ==
    \E v \in NameInputs \ {nameInput} :
        applyFilter(v, postcodeInput, stateSelect, narrow)

InputPostcode ==
    \E v \in PostcodeInputs \ {postcodeInput} :
        applyFilter(nameInput, v, stateSelect, narrow)

ChangeState ==
    \E v \in (uniqueStates \cup {<<>>}) \ {stateSelect} :
        applyFilter(nameInput, postcodeInput, v, narrow)

ClearFilters == applyFilter(<<>>, <<>>, <<>>, narrow)

\* window resize: the media query may or may not change its answer
Resize == \E m \in BOOLEAN : applyFilter(nameInput, postcodeInput, stateSelect, m)

RemoveAt(s, i) == SubSeq(s, 1, i - 1) \o SubSeq(s, i + 1, Len(s))

\* the outcome, for `latest`, of the suspended invocation i reaching its end
Settle(i, visible) ==
    IF latest.status = "pending" /\ i = Len(pending)
    THEN [status |-> "done", visible |-> visible, rerunOf |-> None]
    ELSE latest

\* geocodePostcodeAU answers {lat, lng}: lines 230-236, then the rest of applyFilter
GeocodeResolved ==
    \E i \in DOMAIN pending, c \in GeocoderAnswers :
        LET visible == WithinRadius(markers, c, 0, RADIUS_KM_POSTCODE)
        IN  /\ pending' = RemoveAt(pending, i)
            /\ markerVisible' = Range(visible)
            /\ ListAndFit(visible, narrow)
            /\ latest' = Settle(i, visible)
            /\ center' = Some(c)
            /\ UNCHANGED <<server, markers, uniqueStates, nameInput, postcodeInput,
                           stateSelect, narrow, embedded, geoSupported, locPc,
                           listener, btnDisabled, myMarker, notice>>

\* geocodePostcodeAU answers null (response not ok, or an empty result list):
\* `visible` is still pass 1's empty list and the markers are not touched again
GeocodeNull ==
    \E i \in DOMAIN pending :
        /\ pending' = RemoveAt(pending, i)
        /\ ListAndFit(<<>>, narrow)
        /\ latest' = Settle(i, <<>>)
        /\ UNCHANGED <<server, markers, uniqueStates, nameInput, postcodeInput,
                       stateSelect, narrow, markerVisible, center, embedded,
                       geoSupported, locPc, listener, btnDisabled, myMarker, notice>>

\* fetch or resp.json() rejects (network error, unparsable body): the await throws
\* and applyFilter ends there, an unhandled rejection
GeocodeThrow ==
    \E i \in DOMAIN pending :
        /\ pending' = RemoveAt(pending, i)
        /\ latest' = Settle(i, <<>>)
        /\ UNCHANGED <<server, markers, uniqueStates, nameInput, postcodeInput,
                       stateSelect, narrow, markerVisible, list, showMore, viewport,
                       center, embedded, geoSupported, locPc, listener, btnDisabled,
                       myMarker, notice>>

\* showMoreBtn.onclick, lines 270-276
ShowAll ==
    /\ showMore.present /\ showMore.shown
    /\ list' = showMore.visible
    /\ showMore' = [showMore EXCEPT !.shown = FALSE]
    /\ viewport' = fitToCoords(viewport, Lats(markers, showMore.visible))
    /\ UNCHANGED <<server, markers, uniqueStates, nameInput, postcodeInput, stateSelect,
                   narrow, markerVisible, pending, latest, center, embedded,
                   geoSupported, locPc, listener, btnDisabled, myMarker, notice>>

-----------------------------------------------------------------------------
(* "Use my location" *)

\* applyNearby(lat, lng), lines 360-382
applyNearby(lat, lng) ==
    LET nearby == WithinRadius(markers, lat, lng, RADIUS_KM_NEAR_ME)
    IN  /\ myMarker' = Some(lat)
        /\ markerVisible' = Range(nearby)
        /\ list' = nearby
        /\ viewport' = fitToCoords(viewport, {lat} \cup Lats(markers, nearby))
        /\ latest' = [status |-> "superseded", visible |-> <<>>, rerunOf |-> None]
        /\ center' = None
        /\ UNCHANGED showMore

\* lines 341-357: no navigator.geolocation, or getCurrentPosition is called
directGeolocation ==
    IF ~geoSupported
    THEN /\ notice' = TRUE       \* alert('Could not access your location.')
         /\ btnDisabled' = FALSE
         /\ locPc' = "idle"
    ELSE /\ btnDisabled' = TRUE
         /\ locPc' = "awaitGeo"
         /\ notice' = FALSE

\* a variant: the click handler leaves the button enabled while it waits for
\* the hosting frame
ClickUseLocationEnabled ==
    /\ ~btnDisabled
    /\ IF embedded
       THEN /\ btnDisabled' = FALSE
            /\ locPc' = "awaitParent"
            /\ listener' = TRUE
            /\ notice' = FALSE
       ELSE /\ directGeolocation
            /\ UNCHANGED listener
    /\ UNCHANGED <<server, markers, uniqueStates, nameInput, postcodeInput, stateSelect,
                   narrow, markerVisible, list, showMore, viewport, pending,
                   latest, center, embedded, geoSupported, myMarker>>

\* the click handler up to its first suspension.  A disabled button fires no click.
\* Not embedded: getLocationViaParent rejects at once and the handler goes on.
ClickUseLocation ==
    /\ ~btnDisabled
    /\ IF embedded
       THEN /\ btnDisabled' = TRUE
            /\ locPc' = "awaitParent"
            /\ listener' = TRUE
            /\ notice' = FALSE
       ELSE /\ directGeolocation
            /\ UNCHANGED listener
    /\ UNCHANGED <<server, markers, uniqueStates, nameInput, postcodeInput, stateSelect,
                   narrow, markerVisible, list, showMore, viewport, pending,
                   latest, center, embedded, geoSupported, myMarker>>

\* a 'geolocation-response' message reaches the registered handler: it resolves
\* with d.coords when d.ok and d.coords, and rejects otherwise
ParentResponse ==
    /\ locPc = "awaitParent" /\ listener
    /\ listener' = FALSE
    /\ \E ok \in BOOLEAN, coords \in {None} \cup {Some(c) : c \in DevicePositions} :
          IF ok /\ coords # None
          THEN /\ applyNearby(coords[1], 0)
               /\ btnDisabled' = FALSE
               /\ locPc' = "idle"
               /\ UNCHANGED notice
          ELSE /\ directGeolocation
               /\ UNCHANGED <<markerVisible, list, showMore, viewport, latest, center,
                              myMarker>>
    /\ UNCHANGED <<server, markers, uniqueStates, nameInput, postcodeInput, stateSelect,
                   narrow, pending, embedded, geoSupported>>

\* any other message: the handler does nothing, and addEventListener's
\* {once: true} has removed it
ParentOtherMessage ==
    /\ locPc = "awaitParent" /\ listener
    /\ listener' = FALSE
    /\ UNCHANGED <<server, markers, uniqueStates, nameInput, postcodeInput, stateSelect,
                   narrow, markerVisible, list, showMore, viewport, pending,
                   latest, center, embedded, geoSupported, locPc, btnDisabled, myMarker,
                   notice>>

\* a variant: the success callback keeps only the nearby stockists in the
\* registry (markers = markers.filter(...))
GeoSuccessPruning ==
    /\ locPc = "awaitGeo"
    /\ \E c \in DevicePositions :
          LET nearby == WithinRadius(markers, c, 0, RADIUS_KM_NEAR_ME)
          IN  /\ markers' = [i \in 1..Len(nearby) |-> markers[nearby[i]]]
              /\ markerVisible' = 1..Len(nearby)
              /\ list' = [i \in 1..Len(nearby) |-> i]
              /\ myMarker' = Some(c)
              /\ viewport' = fitToCoords(viewport, {c} \cup Lats(markers, nearby))
              /\ showMore' = NoButton
    /\ latest' = [status |-> "superseded", visible |-> <<>>, rerunOf |-> None]
    /\ center' = None
    /\ btnDisabled' = FALSE
    /\ locPc' = "idle"
    /\ UNCHANGED <<server, uniqueStates, nameInput, postcodeInput, stateSelect,
                   narrow, pending, embedded, geoSupported, listener, notice>>

\* getCurrentPosition's success callback
GeoSuccess ==
    /\ locPc = "awaitGeo"
    /\ \E c \in DevicePositions : applyNearby(c, 0)
    /\ btnDisabled' = FALSE
    /\ locPc' = "idle"
    /\ UNCHANGED <<server, markers, uniqueStates, nameInput, postcodeInput, stateSelect,
                   narrow, pending, embedded, geoSupported, listener, notice>>

\* a variant: the error callback also resets the display
GeoErrorClearing ==
    /\ locPc = "awaitGeo"
    /\ notice' = TRUE
    /\ btnDisabled' = FALSE
    /\ locPc' = "idle"
    /\ markerVisible' = {}
    /\ list' = <<>>
    /\ UNCHANGED <<server, markers, uniqueStates, nameInput, postcodeInput, stateSelect,
                   narrow, showMore, viewport, pending,
                   latest, center, embedded, geoSupported, listener, myMarker>>

\* getCurrentPosition's error callback: denied, unavailable, or the 8 s timeout
GeoError ==
    /\ locPc = "awaitGeo"
    /\ notice' = TRUE             \* alert('Could not access your location.')
    /\ btnDisabled' = FALSE
    /\ locPc' = "idle"
    /\ UNCHANGED <<server, markers, uniqueStates, nameInput, postcodeInput, stateSelect,
                   narrow, markerVisible, list, showMore, viewport, pending,
                   latest, center, embedded, geoSupported, listener, myMarker>>

-----------------------------------------------------------------------------
(* The server while only the page is looked at: no row, no webhook *)

\* an invocation slot not in use
Free ==
    [pc |-> "free", method |-> "", hmac |-> [kind |-> "undefined", value |-> <<>>],
     topic |-> "", address |-> "", inShopify |-> FALSE, nomap |-> FALSE,
     coords |-> None]

NoResponse == [status |-> 0, inShopify |-> FALSE]

\* a header or query value, req.headers[...] or req.query[...]: undefined, one string, or an array of
\* strings (sent more than once)
Undefined == [kind |-> "undefined", value |-> <<>>]
StringHeader(str) == [kind |-> "string", value |-> <<str>>]
ArrayHeader(str) == [kind |-> "array", value |-> <<str, str>>]

\* the pending-geocode job was never requested, on an empty table
GeocodeJobAtRest ==
    geocodeJob = [pc |-> "idle", rows |-> <<>>, pending |-> {}, locatable |-> {}]

\* the backfill was never requested, with no customer in the shop
BackfillAtRest ==
    backfill = [pc |-> "idle", token |-> Undefined, asked |-> Undefined, customers |-> {},
                since_id |-> None, customersPage |-> <<>>, count |-> 0,
                fetches |-> 0, upserts |-> <<>>, status |-> 0, imported |-> 0]

JobsAtRest == GeocodeJobAtRest /\ BackfillAtRest

\* no webhook was ever received
WebhookAtRest ==
    /\ stockists = None
    /\ handlers = [s \in 1..MaxHandlers |-> Free]
    /\ secret = None
    /\ response = NoResponse
    /\ received = "none"

ServerAtRest == WebhookAtRest /\ JobsAtRest

-----------------------------------------------------------------------------
(* The page after init: the registry is loaded and setupFiltering has run *)
(* applyFilter once on the empty fields                                    *)

Init ==
    \E feed \in Feeds :
        LET reg == LoadRegistry(feed)
            visible == Pass1(reg, <<>>, <<>>, <<>>)
            all == Lats(reg, Indices(reg))
        IN  /\ markers = reg
            /\ uniqueStates = UniqueStates(feed)
            /\ nameInput = <<>> /\ postcodeInput = <<>> /\ stateSelect = <<>>
            /\ narrow \in BOOLEAN
            /\ markerVisible = Range(visible)
            /\ list = RenderItems(visible, narrow)
            /\ showMore = ShowMoreAfter(NoButton, visible, narrow)
            \* the initial fit runs before applyFilter's, or at the map's load event
            /\ viewport \in
                 { fitToCoords(fitToCoords(InitialView, all), Lats(reg, list)),
                   fitToCoords(fitToCoords(InitialView, Lats(reg, list)), all) }
            /\ pending = <<>>
            /\ latest = [status |-> "direct", visible |-> visible, rerunOf |-> None]
            /\ center = None
            /\ embedded \in BOOLEAN
            /\ geoSupported \in BOOLEAN
            /\ locPc = "idle"
            /\ listener = FALSE
            /\ btnDisabled = FALSE
            /\ myMarker = None
            /\ notice = FALSE
            /\ ServerAtRest

Next ==
    \/ InputName
    \/ InputPostcode
    \/ ChangeState
    \/ ClearFilters
    \/ Resize
    \/ GeocodeResolved
    \/ GeocodeNull
    \/ GeocodeThrow
    \/ ShowAll
    \/ ClickUseLocation
    \/ ParentResponse
    \/ ParentOtherMessage
    \/ GeoSuccess
    \/ GeoError

Spec == Init /\ [][Next]_vars

\* What the platform guarantees: a fetch settles, and getCurrentPosition (called
\* with timeout: 8000) calls back.  Nothing obliges the user to act or the hosting
\* frame to post a message.
Fairness ==
    /\ WF_vars(GeocodeResolved \/ GeocodeNull \/ GeocodeThrow)
    /\ WF_vars(GeoSuccess \/ GeoError)

FairSpec == Spec /\ Fairness

-----------------------------------------------------------------------------
(* The customers webhook (src/api/shopify/customers.ts) for one customer id *)
(* and the stockists table it writes.  An address stands for the six       *)
(* address columns; the point the geocoder finds for an address is named   *)
(* by that address, so that coordinates tell which address they belong to. *)

Addresses == {"A", "B"}
Methods == {"POST", "GET"}
Topics == {"customers/update", "customers/delete"}

\* the raw body of a webhook: the customer's id and default address (a
\* customers/delete payload carries the id only)
RawBody(address) == [id |-> 1, address |-> address]

Bodies == {RawBody(a) : a \in Addresses \cup {""}}

\* crypto.createHmac('sha256', key).update(rawBody).digest('base64'): 44
\* characters that depend on the key and on every byte of the body
HmacSha256Base64(key, rawBody) == [len |-> 44, mac |-> <<key, rawBody>>]

\* the headers a sender may attach to a body: none, a short string, the
\* body's digest under the shop's secret sent twice, the body's digest under
\* a guessed secret, and the digest of any body under the shop's secret
HmacHeaders(rawBody) ==
    {Undefined, StringHeader([len |-> 1, mac |-> <<>>]),
     ArrayHeader(HmacSha256Base64("s", rawBody)),
     StringHeader(HmacSha256Base64("guess", rawBody))}
      \cup {StringHeader(HmacSha256Base64("s", b)) : b \in Bodies}

\* a customers/delete payload has no address, any other payload has one
Requests ==
    UNION {{[method |-> m, topic |-> tb[1], body |-> tb[2], hmac |-> h] :
                m \in Methods, h \in HmacHeaders(tb[2])} :
           tb \in {x \in Topics \X Bodies :
                      (x[1] = "customers/delete") = (x[2].address = "")}}

\* a variant: of a repeated header the first value is verified
verifyShopifyHmacFirstValue(rawBody, hmacHeader, key) ==
    IF hmacHeader.kind = "undefined" THEN FALSE
    ELSE LET digest == HmacSha256Base64(key, rawBody)
         IN  IF hmacHeader.value[1].len # digest.len THEN FALSE
             ELSE hmacHeader.value[1] = digest

\* verifyShopifyHmac, src/lib/hmac.ts: timingSafeEqual throws on buffers of
\* different lengths, which the catch turns into false
verifyShopifyHmac(rawBody, hmacHeader, key) ==
    IF hmacHeader.kind # "string" THEN FALSE
    ELSE LET digest == HmacSha256Base64(key, rawBody)
         IN  IF hmacHeader.value[1].len # digest.len THEN FALSE
             ELSE hmacHeader.value[1] = digest

\* lines 87-103 of the handler: the status it answers before doing anything
\* else, 0 when it goes on
Rejection(req) ==
    IF req.method # "POST" THEN 405
    ELSE IF secret = None THEN 500
    ELSE IF ~verifyShopifyHmac(req.body, req.hmac, secret[1]) THEN 401
    ELSE 0

Release(s) == [handlers EXCEPT ![s] = Free]

\* the order of arrival after one more accepted webhook
ReceivedAfter(topic) ==
    IF topic # "customers/delete" THEN "update"
    ELSE IF received \in {"update", "updateThenDelete"} THEN "updateThenDelete"
    ELSE "delete"

\* a request arrives: lines 86-118 up to the handler's first await on Shopify
\* or on the table
Receive(req) ==
    /\ IF Rejection(req) # 0
       THEN /\ response' = [status |-> Rejection(req), inShopify |-> FALSE]
            /\ UNCHANGED <<stockists, handlers, secret, received>>
       ELSE /\ \E s \in 1..MaxHandlers :
                  /\ handlers[s].pc = "free"
                  /\ \A t \in 1..(s - 1) : handlers[t].pc # "free"
                  /\ handlers' =
                       [handlers EXCEPT ![s] =
                          [Free EXCEPT
                             !.pc = IF req.topic = "customers/delete"
                                    THEN "deactivate" ELSE "tags",
                             !.method = req.method, !.hmac = req.hmac,
                             !.topic = req.topic, !.address = req.body.address]]
            /\ received' = ReceivedAfter(req.topic)
            /\ UNCHANGED <<stockists, secret, response>>
    /\ UNCHANGED <<page, jobs>>

\* customers/delete, lines 109-114: update({ is_active: false }).eq('id', id)
Deactivate(s) ==
    /\ handlers[s].pc = "deactivate"
    /\ stockists' = IF stockists = None THEN None
                    ELSE Some([stockists[1] EXCEPT !.is_active = FALSE])
    /\ response' = [status |-> 200, inShopify |-> FALSE]
    /\ handlers' = Release(s)
    /\ UNCHANGED <<secret, received, page, jobs>>

\* fetchCustomerTagsFromAdmin answers, lines 121-123: the live tags when the
\* response is ok, the empty list when it is not (lines 77-80)
TagsLookup(s) ==
    /\ handlers[s].pc = "tags"
    /\ \E inShopify \in BOOLEAN, ok \in BOOLEAN :
          handlers' = [handlers EXCEPT ![s].pc = "read",
                                       ![s].inShopify = inShopify,
                                       ![s].nomap = ok /\ inShopify]
    /\ UNCHANGED <<stockists, secret, response, received, page, jobs>>

\* fetch or resp.json() rejects (lines 71, 81): the handler ends there
TagsLookupThrows(s) ==
    /\ handlers[s].pc = "tags"
    /\ handlers' = Release(s)
    /\ UNCHANGED <<stockists, secret, response, received, page, jobs>>

\* lines 129-167 up to the next await: read the stored address, compare, and
\* go on to geocode when the customer is mapped and the address is new
ReadExisting(s) ==
    LET h == handlers[s]
        addressChanged == stockists = None \/ stockists[1].address # h.address
    IN  /\ h.pc = "read"
        /\ handlers' = [handlers EXCEPT
                          ![s].pc = IF ~h.nomap /\ addressChanged
                                    THEN "geocode" ELSE "upsert"]
        /\ UNCHANGED <<stockists, secret, response, received, page, jobs>>

\* geocodeNominatim answers, lines 158-166: the point of the incoming address
\* (by the full address or by its postcode), or null
Geocode(s) ==
    /\ handlers[s].pc = "geocode"
    /\ \E found \in BOOLEAN :
          handlers' = [handlers EXCEPT
                         ![s].pc = "upsert",
                         ![s].coords = Some(IF found THEN Some(handlers[s].address)
                                            ELSE None)]
    /\ UNCHANGED <<stockists, secret, response, received, page, jobs>>

\* upsert(upsert), lines 145-153 and 169-170: the columns given replace the
\* stored ones; latitude and longitude, when not given, stay as stored (null
\* in a new row)
Upsert(s) ==
    LET h == handlers[s]
        stored == IF stockists = None THEN None ELSE stockists[1].coords
    IN  /\ h.pc = "upsert"
        /\ stockists' = Some([address |-> h.address,
                              is_active |-> ~h.nomap,
                              coords |-> IF h.coords = None THEN stored
                                         ELSE h.coords[1]])
        /\ response' = [status |-> 200, inShopify |-> h.inShopify]
        /\ handlers' = Release(s)
        /\ UNCHANGED <<secret, received, page, jobs>>

\* GET /api/stockists.json, src/api/stockists.json.ts: the active rows with
\* coordinates
StockistFeed ==
    IF stockists # None /\ stockists[1].is_active /\ stockists[1].coords # None
    THEN <<stockists[1]>> ELSE <<>>

\* the page is not part of this specification: it is not open
PageNotOpen ==
    /\ markers = <<>> /\ uniqueStates = {}
    /\ nameInput = <<>> /\ postcodeInput = <<>> /\ stateSelect = <<>>
    /\ narrow = FALSE /\ markerVisible = {} /\ list = <<>>
    /\ showMore = NoButton /\ viewport = InitialView
    /\ pending = <<>>
    /\ latest = [status |-> "direct", visible |-> <<>>, rerunOf |-> None]
    /\ center = None
    /\ embedded = FALSE /\ geoSupported = FALSE
    /\ locPc = "idle" /\ listener = FALSE /\ btnDisabled = FALSE
    /\ myMarker = None /\ notice = FALSE

WebhookInit ==
    /\ PageNotOpen
    /\ stockists = None
    /\ handlers = [s \in 1..MaxHandlers |-> Free]
    /\ secret \in {None, Some("s")}
    /\ response = NoResponse
    /\ received = "none"
    /\ JobsAtRest

WebhookNext ==
    \/ \E req \in Requests : Receive(req)
    \/ \E s \in 1..MaxHandlers : Deactivate(s)
    \/ \E s \in 1..MaxHandlers : TagsLookup(s)
    \/ \E s \in 1..MaxHandlers : TagsLookupThrows(s)
    \/ \E s \in 1..MaxHandlers : ReadExisting(s)
    \/ \E s \in 1..MaxHandlers : Geocode(s)
    \/ \E s \in 1..MaxHandlers : Upsert(s)

WebhookSpec == WebhookInit /\ [][WebhookNext]_vars

-----------------------------------------------------------------------------
(* The pending-geocode job (src/unnamed/part_001): each run selects up to   *)
(* 15 active rows whose latitude is null and geocodes them one by one.      *)
(* Rows are named by their id; all rows of this table are active.           *)

\* .limit(15), line 29
PENDING_LIMIT == 15

\* the rows of the table
NumRows == 16

\* the rows whose address or postcode the geocoder can find
LocatableChoices == {{1}, {NumRows}, {1, NumRows}}

\* the members of a set of ids in ascending order
Ascending(S) ==
    IF S = {} THEN <<>>
    ELSE LET lo == CHOOSE i \in S : \A j \in S : i <= j
             hi == CHOOSE i \in S : \A j \in S : j <= i
             Member(i) == i \in S
         IN  SelectSeq([k \in 1..(hi - lo + 1) |-> lo + k - 1], Member)

\* what select ... .is('latitude', null).eq('is_active', true).limit(n) may
\* return: the query has no order, so any n of the matching rows
Selections(S, n) ==
    IF Cardinality(S) <= n THEN {S}
    ELSE {T \in SUBSET S : Cardinality(T) = n}

\* a run starts, lines 22-31: the select returns its rows (on an error the
\* run answers 500 and nothing changes)
JobStart ==
    /\ geocodeJob.pc = "idle"
    /\ \E T \in Selections(geocodeJob.pending, PENDING_LIMIT) :
          geocodeJob' = [geocodeJob EXCEPT !.pc = "loop", !.rows = Ascending(T)]
    /\ UNCHANGED <<page, stockists, handlers, secret, response, received, backfill>>

\* one turn of the loop, lines 33-52: geocode the row (full address, then
\* postcode) and store the coordinates when there are any
GeocodeRow ==
    /\ geocodeJob.pc = "loop" /\ geocodeJob.rows # <<>>
    /\ LET r == Head(geocodeJob.rows)
       IN  geocodeJob' =
             [geocodeJob EXCEPT
                !.rows = Tail(geocodeJob.rows),
                !.pending = IF r \in geocodeJob.locatable
                            THEN geocodeJob.pending \ {r}
                            ELSE geocodeJob.pending]
    /\ UNCHANGED <<page, stockists, handlers, secret, response, received, backfill>>

\* line 54: res.status(200).send('done')
JobEnd ==
    /\ geocodeJob.pc = "loop" /\ geocodeJob.rows = <<>>
    /\ geocodeJob' = [geocodeJob EXCEPT !.pc = "idle"]
    /\ UNCHANGED <<page, stockists, handlers, secret, response, received, backfill>>

GeocodeJobInit ==
    /\ PageNotOpen /\ WebhookAtRest /\ BackfillAtRest
    /\ \E L \in LocatableChoices :
          geocodeJob = [pc |-> "idle", rows |-> <<>>, pending |-> 1..NumRows,
                        locatable |-> L]

GeocodeJobNext == JobStart \/ GeocodeRow \/ JobEnd

\* the job is requested again and again, and every await of a run settles
GeocodeJobSpec ==
    /\ GeocodeJobInit /\ [][GeocodeJobNext]_vars
    /\ WF_vars(JobStart) /\ WF_vars(GeocodeRow) /\ WF_vars(JobEnd)

-----------------------------------------------------------------------------
(* The backfill (src/api/backfill.ts): one request pages through the       *)
(* shop's customers, 250 at a time, and upserts each into the table.       *)
(* Customers are named by their id; the row built for a customer (lines    *)
(* 39-68, geocoding included) is not kept, only which ids were upserted    *)
(* and how often.                                                          *)

\* url.searchParams.set('limit', '250'), line 15
PAGE_LIMIT == 250

\* the most pages of customers a shop holds
MaxPages == 2

\* how many customers the shop may hold: none, one, a page less one, full
\* pages, full pages and one more
CustomerCounts ==
    {0, 1, PAGE_LIMIT - 1, (MaxPages - 1) * PAGE_LIMIT, (MaxPages - 1) * PAGE_LIMIT + 1}

\* process.env.BACKFILL_TOKEN: unset or a string
ConfiguredTokens == {Undefined, StringHeader("t")}

\* req.query.token: absent, a string, or an array (the parameter given twice)
QueryTokens == {Undefined, StringHeader("t"), StringHeader("x"), ArrayHeader("t")}

\* the first n members of a sequence
Take(seq, n) == SubSeq(seq, 1, IF Len(seq) < n THEN Len(seq) ELSE n)

\* a variant: the page starts at since_id itself
ShopifyPageFromSinceId(customers, since_id) ==
    Take(Ascending({c \in customers : since_id = None \/ c >= since_id[1]}), PAGE_LIMIT)

\* Shopify's answer to customers.json?limit=250[&since_id=...]: the customers
\* with an id greater than since_id, ascending, at most a page of them
ShopifyPage(customers, since_id) ==
    Take(Ascending({c \in customers : since_id = None \/ c > since_id[1]}), PAGE_LIMIT)

\* fetchPage, lines 13-26: since_id is sent only when truthy (`if (since_id)`)
fetchPage(since_id) ==
    ShopifyPage(backfill.customers,
                IF since_id # None /\ since_id[1] # 0 THEN since_id ELSE None)

\* the request arrives, lines 29-32: 401 unless the token is the configured
\* one (!==: an absent token equals an unset variable, an array equals nothing)
BackfillRequest(token) ==
    /\ backfill.pc = "idle"
    /\ backfill' =
         IF token # backfill.token
         THEN [backfill EXCEPT !.pc = "done", !.asked = token, !.status = 401]
         ELSE [backfill EXCEPT !.pc = "fetch", !.asked = token,
                               !.since_id = None, !.count = 0]
    /\ UNCHANGED <<page, stockists, handlers, secret, response, received, geocodeJob>>

\* lines 35-36 and 78: the next page arrives; an empty page ends the loop
\* and the count is reported
BackfillFetchPage ==
    /\ backfill.pc = "fetch"
    /\ LET customers == fetchPage(backfill.since_id)
       IN  backfill' =
             IF Len(customers) = 0
             THEN [backfill EXCEPT !.pc = "done", !.fetches = @ + 1,
                                   !.customersPage = customers,
                                   !.status = 200, !.imported = backfill.count]
             ELSE [backfill EXCEPT !.pc = "upsert", !.fetches = @ + 1,
                                   !.customersPage = customers]
    /\ UNCHANGED <<page, stockists, handlers, secret, response, received, geocodeJob>>

\* lines 38-75: one customer of the page is upserted and counted; after the
\* last one since_id becomes its id and the loop fetches again
BackfillUpsert ==
    /\ backfill.pc = "upsert"
    /\ LET c == Head(backfill.customersPage)
           rest == Tail(backfill.customersPage)
       IN  backfill' =
             [backfill EXCEPT
                !.upserts = [@ EXCEPT ![c] = @ + 1],
                !.count = @ + 1,
                !.customersPage = rest,
                !.since_id = IF rest = <<>> THEN Some(c) ELSE @,
                !.pc = IF rest = <<>> THEN "fetch" ELSE "upsert"]
    /\ UNCHANGED <<page, stockists, handlers, secret, response, received, geocodeJob>>

BackfillInit ==
    /\ PageNotOpen /\ WebhookAtRest /\ GeocodeJobAtRest
    /\ \E n \in CustomerCounts, token \in ConfiguredTokens :
          backfill = [pc |-> "idle", token |-> token, asked |-> Undefined,
                      customers |-> 1..n, since_id |-> None,
                      customersPage |-> <<>>, count |-> 0, fetches |-> 0,
                      upserts |-> [c \in 1..n |-> 0], status |-> 0, imported |-> 0]

BackfillNext ==
    \/ \E token \in QueryTokens : BackfillRequest(token)
    \/ BackfillFetchPage
    \/ BackfillUpsert

\* every await of the handler settles: Shopify answers, the upsert returns
BackfillSpec ==
    /\ BackfillInit /\ [][BackfillNext]_vars
    /\ WF_vars(BackfillFetchPage) /\ WF_vars(BackfillUpsert)

-----------------------------------------------------------------------------
(* Vocabulary of the properties *)

Registry == 1..Len(markers)

\* the members of S in registry order
InOrder(S) ==
    LET Member(i) == i \in S
    IN  SelectSeq([i \in 1..Len(markers) |-> i], Member)

NameOf(i) == IF markers[i].name = None THEN <<>> ELSE markers[i].name[1]

SatisfiesName(i) == includes(toLowerCase(NameOf(i)), toLowerCase(nameInput))

SatisfiesPostcode(i) ==
    /\ markers[i].postcode # None
    /\ includes(markers[i].postcode[1], trim(postcodeInput))

SatisfiesState(i) ==
    \/ toUpperCase(stateSelect) = <<>>
    \/ markers[i].state = toUpperCase(stateSelect)

\* the stockists that satisfy all three predicates of the current fields
DirectMatches ==
    {i \in Registry : SatisfiesName(i) /\ SatisfiesPostcode(i) /\ SatisfiesState(i)}

\* the stockists within r km of latitude c
Ball(c, r) == {i \in Registry : Abs(markers[i].lat - c) <= r}

\* the list as applyFilter renders a visible set S in the current layout
Rendered(S) ==
    IF narrow /\ Cardinality(S) > 10 THEN SubSeq(InOrder(S), 1, 10) ELSE InOrder(S)

\* the markers were last set by pass 1 of the latest filter-change event
ShownByPass1 == center = None /\ latest.status # "superseded"

\* what the geocoder can answer: null, or a point
Answers == {None} \cup {Some(c) : c \in GeocoderAnswers}

-----------------------------------------------------------------------------
(* C1: once no invocation is in flight, the markers and the list are the   *)
(* result of the latest filter-change event; an older invocation's late    *)
(* geocoding response never overwrites it.                                 *)
C1_LatestResultDisplayed ==
    (pending = <<>> /\ latest.status \in {"direct", "done"}) =>
        /\ markerVisible = Range(latest.visible)
        /\ list \in {latest.visible, Rendered(Range(latest.visible))}

-----------------------------------------------------------------------------
(* C2: when the latest invocation waits for the geocoder (the postcode is  *)
(* non-empty and pass 1 matched nothing) and its lookup fails, with a null *)
(* answer or a rejected fetch, then no marker is visible and the list is   *)
(* empty when it ends.                                                     *)
C2_FailedLookupShowsNothing ==
    [][ ( /\ latest.status = "pending"
          /\ latest'.status = "done"
          /\ GeocodeNull \/ GeocodeThrow )
        => (markerVisible' = {} /\ list' = <<>>) ]_vars

-----------------------------------------------------------------------------
(* C3: the geocoding lookup is issued if and only if the trimmed postcode  *)
(* is non-empty and no stockist satisfies all three predicates: an         *)
(* invocation that ended without a lookup had a direct match or no         *)
(* postcode, and a step that issues a lookup has a postcode and no direct  *)
(* match.                                                                  *)
C3_FallbackIff ==
    /\ [](latest.status = "direct" =>
            ~(trim(postcodeInput) # <<>> /\ DirectMatches = {}))
    /\ [][ (Len(pending') > Len(pending)) =>
             /\ latest'.status = "pending"
             /\ trim(postcodeInput') # <<>>
             /\ DirectMatches' = {} ]_vars

\* a lookup has just been issued for the postcode now in the field
C3_FallbackIssued ==
    /\ latest.status = "pending"
    /\ Len(pending) = 1
    /\ pending[1].pc = trim(postcodeInput)
    /\ postcodeInput # <<>>
    /\ DirectMatches = {}

-----------------------------------------------------------------------------
(* C4, as claimed: whenever applyFilter has run to its end for the current *)
(* fields (at once, or after its lookup), every visible stockist is in the *)
(* registry and satisfies all three predicates.                            *)
C4_AllMembersSatisfy ==
    (pending = <<>> /\ latest.status \in {"direct", "done"}) =>
        /\ markerVisible \subseteq Registry
        /\ markerVisible \subseteq DirectMatches

(* C4, amended: the visible set is always a subset of the registry, and    *)
(* every member satisfies all three predicates when the set is pass 1's    *)
(* result; a set produced by the radius fallback need not (it ignores the  *)
(* predicates).                                                            *)
C4_Pass1MembersSatisfy ==
    /\ markerVisible \subseteq Registry
    /\ ShownByPass1 => markerVisible \subseteq DirectMatches

\* pass 1 has narrowed the registry by name (case-insensitively) and by state
C4_FilteredByNameAndState ==
    /\ nameInput = <<"B">>
    /\ stateSelect = <<"V">>
    /\ latest.status = "direct"
    /\ ShownByPass1
    /\ markerVisible = {1}
    /\ Len(markers) = 3

-----------------------------------------------------------------------------
(* C5, as claimed: for every criteria and every geocoder answer, turning   *)
(* one empty criterion into a non-empty one never increases the size of    *)
(* the set applyFilter leaves visible.                                     *)
C5_Monotone ==
    LET Names == {<<>>, <<"b">>}
        Postcodes == {<<>>, <<"3">>}
        States == {<<>>, <<"N">>}
        Size(n, p, s, a) == Len(applyFilterResult(markers, n, p, s, a))
    IN  \A n \in Names, p \in Postcodes, s \in States, a \in Answers :
            /\ n # <<>> => Size(n, p, s, a) <= Size(<<>>, p, s, a)
            /\ p # <<>> => Size(n, p, s, a) <= Size(n, <<>>, s, a)
            /\ s # <<>> => Size(n, p, s, a) <= Size(n, p, <<>>, a)

(* C5, amended: when the visible set is pass 1's result for the current    *)
(* fields (no fallback replaced it), it is no larger than what applyFilter *)
(* leaves visible with any one of the non-empty fields emptied, whatever   *)
(* the geocoder answers.                                                   *)
C5_MonotoneWithoutFallback ==
    (ShownByPass1 /\ latest.status = "direct") =>
        \A a \in Answers :
            /\ nameInput # <<>> =>
                 Cardinality(markerVisible) <=
                   Len(applyFilterResult(markers, <<>>, postcodeInput, stateSelect, a))
            /\ trim(postcodeInput) # <<>> =>
                 Cardinality(markerVisible) <=
                   Len(applyFilterResult(markers, nameInput, <<>>, stateSelect, a))
            /\ stateSelect # <<>> =>
                 Cardinality(markerVisible) <=
                   Len(applyFilterResult(markers, nameInput, postcodeInput, <<>>, a))

\* a state criterion has narrowed a larger result: two stockists carry the
\* postcode, one of them in the selected state
C5_NarrowedByState ==
    /\ nameInput = <<>>
    /\ trim(postcodeInput) = <<"3">>
    /\ stateSelect = <<"N">>
    /\ latest.status = "direct"
    /\ ShownByPass1
    /\ markerVisible = {2}
    /\ Len(applyFilterResult(markers, <<>>, postcodeInput, <<>>, None)) = 2

-----------------------------------------------------------------------------
(* C6: with the name, postcode and state fields all empty, every stockist  *)
(* of the registry is visible, those with a null postcode or name too.     *)
C6_EmptyCriteriaShowAll ==
    ( /\ nameInput = <<>>
      /\ trim(postcodeInput) = <<>>
      /\ stateSelect = <<>>
      /\ latest.status = "direct"
      /\ ShownByPass1 )
    => markerVisible = Registry

-----------------------------------------------------------------------------
(* C7: when the awaited postcode lookup resolves to a point, the visible   *)
(* stockists become exactly those within 5 km of it (5 km included),       *)
(* whatever the name and state fields hold, and the list shows them.       *)
C7_FallbackShowsBall ==
    [][ GeocodeResolved =>
          /\ center' # None
          /\ markerVisible' = Ball(center'[1], 5)
          /\ list' = Rendered(markerVisible') ]_vars

\* the fallback shows a stockist exactly 5 km away that matches neither the
\* name nor the state field
C7_BallIgnoresFields ==
    /\ center = Some(10)
    /\ markerVisible = {2}
    /\ nameInput = <<"B">>
    /\ stateSelect = <<"V">>
    /\ Len(markers) = 3

-----------------------------------------------------------------------------
(* C8: applyNearby makes visible exactly the stockists within 10 km of the *)
(* origin (10 km included), whatever the filter fields hold, and lists     *)
(* them all.                                                               *)
C8_NearbyShowsBall ==
    [][ ( \/ GeoSuccess
          \/ ParentResponse /\ locPc' = "idle" /\ ~notice' ) =>
          /\ myMarker' # None
          /\ markerVisible' = Ball(myMarker'[1], 10)
          /\ list' = InOrder(markerVisible') ]_vars

\* the near-me result holds a stockist exactly 10 km away while the fields
\* ask for a name and a state that it does not have
C8_BoundaryIncluded ==
    /\ myMarker = Some(10)
    /\ latest.status = "superseded"
    /\ center = None
    /\ markerVisible = {1, 2}
    /\ nameInput = <<"B">>
    /\ stateSelect = <<"N">>
    /\ Len(markers) = 3

-----------------------------------------------------------------------------
(* C9: a click that waits for the hosting frame's answer does not wait     *)
(* forever: it eventually leaves getLocationViaParent (to go on to the     *)
(* device's geolocation, or with the frame's coordinates).                 *)
C9_LeavesParentWait == (locPc = "awaitParent") ~> (locPc # "awaitParent")

-----------------------------------------------------------------------------
(* C10: no click leaves the button disabled for ever: a disabled button is *)
(* eventually enabled again, with the failure notice shown if the attempt  *)
(* failed.                                                                 *)
C10_ButtonReenabled == btnDisabled ~> (~btnDisabled /\ (notice \/ locPc = "idle"))

-----------------------------------------------------------------------------
(* C11: no step of a 'use my location' attempt that fails changes what is  *)
(* displayed: the click, the hosting frame's refusal, an ignored message   *)
(* and the failure itself (geolocation unsupported, or the error callback) *)
(* leave marker visibility, the list, the show-more button, the            *)
(* my-location marker and the viewport as they were.                       *)
C11_FailureKeepsDisplay ==
    [][ ( \/ ClickUseLocation
          \/ ParentOtherMessage
          \/ GeoError
          \/ ParentResponse /\ (notice' \/ locPc' = "awaitGeo") )
        => UNCHANGED <<markerVisible, list, showMore, myMarker, viewport>> ]_vars

\* an attempt has failed after an earlier one had succeeded: the notice is up,
\* the button is enabled, and the near-me result is still displayed
C11_FailedAfterNearby ==
    /\ notice
    /\ locPc = "idle"
    /\ ~btnDisabled
    /\ myMarker = Some(10)
    /\ latest.status = "superseded"
    /\ center = None
    /\ markerVisible = {1, 2}
    /\ list = <<1, 2>>
    /\ Len(markers) = 3

-----------------------------------------------------------------------------
(* C12: whenever no filter lookup and no location attempt is in flight,    *)
(* the visible markers are exactly the set the list was last rebuilt from: *)
(* the list shows the visible stockists in registry order, or the first    *)
(* ten of them when there are more.                                        *)
C12_MarkersMatchList ==
    (pending = <<>> /\ locPc = "idle") =>
        \/ list = InOrder(markerVisible)
        \/ /\ Cardinality(markerVisible) > 10
           /\ list = SubSeq(InOrder(markerVisible), 1, 10)

\* a filter-change event: each runs applyFilter
FilterEvent == InputName \/ InputPostcode \/ ChangeState \/ ClearFilters \/ Resize

\* the list and the button after a step, as lines 239-279 leave them for the
\* visible stockists V (in registry order)
PresentedAs(V) ==
    IF narrow' /\ Len(V) > 10
    THEN /\ list' = SubSeq(V, 1, 10)
         /\ showMore'.present /\ showMore'.shown
         /\ showMore'.total = Len(V)
    ELSE /\ list' = V
         /\ ~(showMore'.present /\ showMore'.shown)

-----------------------------------------------------------------------------
(* C13: when applyFilter runs to its end (at once, or after its lookup     *)
(* answered a point or null) in a narrow layout with more than 10 visible  *)
(* stockists, the list holds exactly the first 10 and the show-more button *)
(* is shown with the full count; otherwise the list holds them all and the *)
(* button, if it exists, is hidden.                                        *)
C13_TruncatedOnNarrow ==
    [][ /\ \/ PresentedAs(InOrder(markerVisible'))
           \/ ~(GeocodeResolved \/ (FilterEvent /\ pending' = pending))
        /\ GeocodeNull => PresentedAs(<<>>) ]_vars

\* a filter has just left eleven matches on a narrow layout: ten are listed
\* under a button that says eleven
C13_TenOfEleven ==
    /\ narrow
    /\ nameInput = <<"B">>
    /\ latest.status = "direct"
    /\ markerVisible = 1..11
    /\ list = [i \in 1..10 |-> i]
    /\ showMore.present /\ showMore.shown
    /\ showMore.total = 11

-----------------------------------------------------------------------------
(* C14: whenever the show-more button is shown, activating it lists        *)
(* exactly the stockists whose markers are visible at that moment, in      *)
(* registry order, and hides the button.                                   *)
C14_ShowAllListsVisible ==
    [][ ShowAll => (list' = InOrder(markerVisible) /\ ~showMore'.shown) ]_vars

\* the scenario of a near-me search after a truncated filter result: nothing is
\* in flight, the button has been activated, and the list holds a stockist
\* whose marker applyNearby has hidden
C14_ListsHiddenAfterNearby ==
    /\ pending = <<>> /\ locPc = "idle"
    /\ latest.status = "superseded" /\ center = None
    /\ showMore.present /\ ~showMore.shown
    /\ markerVisible = 1..10
    /\ list = [i \in 1..11 |-> i]

-----------------------------------------------------------------------------
(* C15: when a resize re-runs the filter while a radius-fallback result is *)
(* displayed, and no newer filter event follows, then once the re-run has  *)
(* ended the visible set is that same radius-fallback set: the stockists   *)
(* within 5 km of the point it was searched around.  (A geocoder that      *)
(* answers the same postcode with another point is left aside.)            *)
C15_FallbackSurvivesResize ==
    [][ ( /\ latest.status = "pending"
          /\ latest'.status = "done"
          /\ latest.rerunOf # None
          /\ center' \in {None, latest.rerunOf} )
        => markerVisible' = Ball(latest.rerunOf[1], 5) ]_vars

-----------------------------------------------------------------------------
(* C16: every suspended applyFilter invocation that ends, whatever the     *)
(* lookup's outcome, ends by running its last part: the list is rebuilt    *)
(* and the show-more button updated, for the radius result when the lookup *)
(* answered a point and for the empty set when it failed.                  *)
C16_LookupAlwaysCompletes ==
    [][ (Len(pending') < Len(pending)) =>
          \/ PresentedAs(<<>>)
          \/ center' # None /\ PresentedAs(InOrder(markerVisible')) ]_vars

-----------------------------------------------------------------------------
(* C17: once a fit on a non-empty coordinate list has settled, the map's   *)
(* zoom is not coarser than the minimum-zoom floor (6).                    *)
C17_ZoomNotBelowFloor ==
    viewport # None => SettledZoom(viewport) >= MIN_FIT_ZOOM

-----------------------------------------------------------------------------
(* C18: fitToCoords on an empty coordinate list issues no viewport         *)
(* command: every step that leaves the list empty, other than applyNearby  *)
(* (which always frames the origin), leaves the viewport as it was; so a   *)
(* filter result with no visible stockist never moves the map.             *)
C18_EmptyResultKeepsViewport ==
    [][ ( /\ list' = <<>>
          /\ ~(GeoSuccess \/ (ParentResponse /\ locPc' = "idle" /\ ~notice')) )
        => viewport' = viewport ]_vars

\* a filter has ended with no match and no lookup (a name and a state that no
\* stockist combines), and the map still shows the earlier frame
C18_NoMatchViewKept ==
    /\ nameInput = <<"B">>
    /\ stateSelect = <<"N">>
    /\ trim(postcodeInput) = <<>>
    /\ latest.status = "direct"
    /\ ShownByPass1
    /\ markerVisible = {}
    /\ list = <<>>
    /\ viewport = Some([lo |-> 0, hi |-> 5])


\* The valid ranges of a coordinate: a latitude of 90 degrees is a quarter of
\* a meridian, 6371 * pi / 2 km of arc; a longitude is counted in degrees.
QuarterMeridianKm == 10007

ValidLatitude(lat) == -QuarterMeridianKm <= lat /\ lat <= QuarterMeridianKm

ValidLongitude(lng) == -180 <= lng /\ lng <= 180

-----------------------------------------------------------------------------
\* C19: every stockist of the registry has a latitude within [-90, 90]
\* degrees and a longitude within [-180, 180] degrees; feed rows failing
\* this get no entry in the registry.
C19_RegistryCoordinatesValid ==
    \A i \in Registry :
        ValidLatitude(markers[i].lat) /\ ValidLongitude(markers[i].lng)


-----------------------------------------------------------------------------
\* C20: after the initial load no filter, resize, show-all or location
\* operation adds, removes, reorders or changes a stockist of the registry:
\* every step leaves `markers` as it was.
C20_RegistryFixedAfterLoad == [][markers' = markers]_vars

\* the chain's registry, intact after a "use my location" that hid the
\* eleventh branch and a later name filter whose pass 1 matched all eleven,
\* listed truncated on the narrow layout
C20_IntactAfterOperations ==
    /\ markers = LoadRegistry(FeedChain)
    /\ myMarker = Some(10)
    /\ nameInput = <<"B">>
    /\ latest.status = "direct"
    /\ markerVisible = 1..11
    /\ showMore.present /\ showMore.shown
    /\ Len(list) = 10


\* a sequence of stockists in the order of the registry, each at most once
InRegistryOrder(seq) ==
    /\ \A k \in 1..Len(seq) : seq[k] \in Registry
    /\ \A j, k \in 1..Len(seq) : j < k => seq[j] < seq[k]

-----------------------------------------------------------------------------
\* C21: the visible set computed by pass 1, by the radius fallback and by
\* applyNearby lists its stockists in the order of the registry, never by
\* distance: the set the last synchronous pass computed, the set the show-more
\* button holds and the rendered list are each in registry order.
C21_VisibleInRegistryOrder ==
    /\ InRegistryOrder(latest.visible)
    /\ InRegistryOrder(showMore.visible)
    /\ InRegistryOrder(list)

\* "use my location" 10 km north of the first stockist and 5 km north of the
\* second: the nearer stockist is listed second, as in the registry
C21_NearerListedSecond ==
    /\ myMarker = Some(10) /\ latest.status = "superseded" /\ ~notice
    /\ Len(markers) = 3 /\ markers[1].lat = 0 /\ markers[2].lat = 5
    /\ list = <<1, 2>>


-----------------------------------------------------------------------------
\* C22: the visible set applyFilter computes is a function of the registry,
\* the three fields and the geocoder's answer alone, so applying the filter
\* again with the same fields and the same answer computes the same set in
\* the same order, whatever earlier filter, resize or location operations
\* left on the page.  A run that ends in pass 1 computes the direct matches
\* of the fields, in registry order; a run whose lookup is answered with a
\* point computes the stockists within 5 km of that point, in registry order.
C22_SameCriteriaSameVisible ==
    /\ [](latest.status = "direct" => latest.visible = InOrder(DirectMatches))
    /\ [][ ( /\ latest.status = "pending" /\ latest'.status = "done"
             /\ center' # None
             /\ GeocodeResolved )
           => latest'.visible = InOrder(Ball(center'[1], 5)) ]_vars

\* a name filter applied after "use my location" had hidden the chain's
\* eleventh branch: pass 1 finds all eleven again, as it did at load
C22_FilterAfterNearby ==
    /\ myMarker = Some(10) /\ Len(markers) = 11 /\ ~narrow
    /\ nameInput = <<"B">> /\ postcodeInput = <<>> /\ stateSelect = <<>>
    /\ latest.status = "direct" /\ latest.visible = [i \in 1..11 |-> i]
    /\ list = latest.visible


\* the points distanceKm is called with: the stockists' coordinates, and the
\* points the geocoder and the device report (on the stockists' meridian)
Points ==
    {<<markers[i].lat, markers[i].lng>> : i \in Registry}
        \cup {<<c, 0>> : c \in GeocoderAnswers \cup DevicePositions}

-----------------------------------------------------------------------------
-----------------------------------------------------------------------------
\* C24: once a successful "use my location" shows its nearby set (and no
\* lookup is in flight), a resize of the window leaves the markers of that
\* nearby set shown.
C24_ResizeKeepsNearby ==
    [][ ( /\ latest.status = "superseded" /\ myMarker # None /\ pending = <<>>
          /\ markerVisible = Ball(myMarker[1], RADIUS_KM_NEAR_ME)
          /\ Resize )
        => markerVisible' = markerVisible ]_vars


-----------------------------------------------------------------------------
\* C25: while the request to the hosting frame is pending, a message of
\* another type leaves it pending with its handler still listening, so that a
\* later 'geolocation-response' still settles it: a pending request always
\* has its message handler registered.
C25_PendingRequestListens == (locPc = "awaitParent") => listener


-----------------------------------------------------------------------------
\* C26: at most one "use my location" request is in flight: while an attempt
\* waits for the hosting frame or for the device, the button is disabled, and
\* a disabled button starts no request.
C26_OneRequestInFlight == (locPc # "idle") => btnDisabled

\* the hosting frame has refused and the attempt now waits for the device,
\* the button still disabled
C26_SecondStageStillDisabled ==
    embedded /\ locPc = "awaitGeo" /\ ~listener /\ btnDisabled /\ ~notice


\* no invocation of the webhook handler is running
Quiet == \A s \in 1..MaxHandlers : handlers[s].pc = "free"

-----------------------------------------------------------------------------
\* C27: after any sequence of create/update webhooks, whenever the stored
\* row is active and has coordinates, they are the coordinates the geocoder
\* found for the stored address.
C27_CoordsOfStoredAddress ==
    ( /\ Quiet /\ received = "update"
      /\ stockists # None /\ stockists[1].is_active /\ stockists[1].coords # None )
    => stockists[1].coords = Some(stockists[1].address)


-----------------------------------------------------------------------------
\* C28: when a customers/delete webhook arrived after a create/update
\* webhook of the same customer and no webhook arrived since, then once every
\* handler has finished the customer's row is not active.
C28_DeleteWins ==
    (Quiet /\ received = "updateThenDelete" /\ stockists # None)
        => ~stockists[1].is_active


-----------------------------------------------------------------------------
\* C29: once a create/update webhook of a customer whose Shopify tags
\* include 'nomap' has been processed, the customer's row is not active and
\* the feed does not serve it, whatever the Admin API answered to the tag
\* lookup.
C29_NomapNotServed ==
    (response.status = 200 /\ response.inShopify)
        => (stockists # None /\ ~stockists[1].is_active /\ StockistFeed = <<>>)


\* the request is a POST whose HMAC header is one string, the digest of its
\* raw body under the configured secret
Authentic(method, hmac, rawBody) ==
    /\ method = "POST"
    /\ secret # None
    /\ hmac = StringHeader(HmacSha256Base64(secret[1], rawBody))

-----------------------------------------------------------------------------
\* C30: the webhook handler reads or writes the table only for a POST request
\* received with the secret configured and with an HMAC header that is a
\* single string equal to the base64 HMAC-SHA256 of the raw body: every
\* invocation that got past the checks (and so may reach the table) is of
\* such a request, and a request that is not is answered 405 (method), 500
\* (no secret) or 401 (HMAC), in that order of precedence, with the table and
\* the running invocations left as they were.
C30_OnlyAuthenticReachTable ==
    /\ [](\A s \in 1..MaxHandlers :
            handlers[s].pc # "free" =>
                Authentic(handlers[s].method, handlers[s].hmac,
                          RawBody(handlers[s].address)))
    /\ [](\A req \in Requests :
            Rejection(req) =
                IF Authentic(req.method, req.hmac, req.body) THEN 0
                ELSE IF req.method # "POST" THEN 405
                ELSE IF secret = None THEN 500 ELSE 401)
    /\ [][ (response' # response /\ response'.status # 200) =>
             /\ response'.status \in {405, 500, 401}
             /\ stockists' = stockists /\ handlers' = handlers ]_vars

\* a request signed with a guessed secret has just been answered 401 while
\* the customer's row exists and an accepted webhook is being processed
C30_ForgedRequestRefused ==
    /\ response.status = 401
    /\ secret = Some("s")
    /\ stockists # None /\ stockists[1].is_active
    /\ handlers[1].pc = "upsert"


-----------------------------------------------------------------------------
\* C31: with the pending-geocode job run again and again, every pending row
\* that the geocoder can find eventually has coordinates, even when other
\* pending rows can never be geocoded: from some time on no row that can be
\* geocoded is pending.
C31_LocatableRowsGeocoded ==
    <>[](geocodeJob.pending \cap geocodeJob.locatable = {})


-----------------------------------------------------------------------------
====
